---- MODULE Spec2Model ----
(***************************************************************************)
(* Model of the MITPolicyHackathon2024 data scripts:                       *)
(*   prior_summary.py  (convert_to_months, load_prior_commitments,         *)
(*                      summarize_prior_commitments, main)                 *)
(*   cleaning.py       (merge_data, merge_with_prior_summary, clean_data,  *)
(*                      save_data, main)                                   *)
(*   current_clean.py  (convert_to_months, load_and_clean_data, main)      *)
(* Every behaviour is one invocation of one entry point on one input.      *)
(*                                                                         *)
(* Text is modelled as a sequence of symbols.  A symbol is one character,  *)
(* except that the literal words the code searches for ("Year", "Month",   *)
(* "csv", "xlsx", ...) are single symbols.                                 *)
(***************************************************************************)
EXTENDS Integers, Sequences, FiniteSets, TLC

VARIABLES
    script,                \* the entry point that runs
    pc,                    \* the statement of main that runs next
    trace,                 \* the stages and effects carried out so far, in order
    stdout,                \* the lines printed
    log,                   \* the lines logged
    exc,                   \* the exception that ended the process, "" if none
    time_str, ret_prior, ret_current,
    prior_csv, prior_commitments_df, summary_df, summary_csv,
    demographics_csv, commitments_csv, prior_summary_csv,
    demographics_df, commitments_df, prior_summary_df,
    merged_df, final_df, cleaned_df,
    input_file, input_csv,
    out_file

ctlVars == <<script, pc, trace, stdout, log, exc>>

convVars == <<time_str, ret_prior, ret_current>>

priorVars == <<prior_csv, prior_commitments_df, summary_df, summary_csv>>

cleaningInputs == <<demographics_csv, commitments_csv, prior_summary_csv>>

cleaningVars ==
    <<cleaningInputs, demographics_df, commitments_df, prior_summary_df,
      merged_df, final_df>>

currentVars == <<input_file, input_csv>>

vars == <<ctlVars, convVars, priorVars, cleaningVars, currentVars, cleaned_df, out_file>>

(*************************** bounds ****************************************)
MaxLen == 4

MaxNum == 10

MaxRows == 3

MaxLeft == 2

MaxDemo == 1

MaxPriorSum == 1

MaxCurRows == 2

MaxPath == 4

(*************************** values ***************************************)
\* a Python value held in a cell: text (a sequence of symbols), an integer,
\* a float n/d, the float NaN, a Timestamp (day number n), NaT, None
Str(s) == [kind |-> "str", val |-> s, n |-> 0, d |-> 1]

Num(i) == [kind |-> "int", val |-> <<>>, n |-> i, d |-> 1]

Float(a, b) == [kind |-> "float", val |-> <<>>, n |-> a, d |-> b]

NaN == [kind |-> "nan", val |-> <<>>, n |-> 0, d |-> 1]

Timestamp(day) == [kind |-> "date", val |-> <<>>, n |-> day, d |-> 1]

NaT == [kind |-> "nat", val |-> <<>>, n |-> 0, d |-> 1]

PyNone == [kind |-> "None", val |-> <<>>, n |-> 0, d |-> 1]

\* pandas isna()
isna(v) == v.kind \in {"nan", "nat", "None"}

(*************************** text ******************************************)
Digit == {"0", "1", "2", "3", "4", "5", "6", "7", "8", "9"}

Space == {" "}

DigitVal(c) ==
    CASE c = "0" -> 0 [] c = "1" -> 1 [] c = "2" -> 2 [] c = "3" -> 3
      [] c = "4" -> 4 [] c = "5" -> 5 [] c = "6" -> 6 [] c = "7" -> 7
      [] c = "8" -> 8 [] c = "9" -> 9

DigitChar(d) ==
    CASE d = 0 -> "0" [] d = 1 -> "1" [] d = 2 -> "2" [] d = 3 -> "3"
      [] d = 4 -> "4" [] d = 5 -> "5" [] d = 6 -> "6" [] d = 7 -> "7"
      [] d = 8 -> "8" [] d = 9 -> "9"

\* int(text) for a text made of decimal digits
RECURSIVE int(_)
int(ds) ==
    IF ds = <<>> THEN 0
    ELSE 10 * int(SubSeq(ds, 1, Len(ds) - 1)) + DigitVal(ds[Len(ds)])

\* index just past the longest run of symbols of class cls starting at i
RECURSIVE RunEnd(_, _, _)
RunEnd(s, i, cls) ==
    IF i <= Len(s) /\ s[i] \in cls THEN RunEnd(s, i + 1, cls) ELSE i

NoMatch == [matched |-> FALSE, g1 |-> <<>>]

\* the pattern (\d+)\s*<tok> anchored at position i: \d+ and \s* are greedy
\* and give characters back, so the match takes the longest digit run (and
\* then the longest blank run) after which tok follows
match_at(s, i, tok) ==
    LET ends == { j \in (i + 1)..RunEnd(s, i, Digit) :
                    \E k \in j..RunEnd(s, j, Space) : k <= Len(s) /\ s[k] = tok }
    IN  IF ends = {} THEN NoMatch
        ELSE LET j == CHOOSE e \in ends : \A f \in ends : f <= e
             IN  [matched |-> TRUE, g1 |-> SubSeq(s, i, j - 1)]

\* a search that keeps the rightmost match instead of the leftmost
RECURSIVE search_from_last(_, _, _)
search_from_last(s, i, tok) ==
    IF i > Len(s) THEN NoMatch
    ELSE IF search_from_last(s, i + 1, tok).matched THEN search_from_last(s, i + 1, tok)
    ELSE match_at(s, i, tok)

\* re.search: the match at the leftmost position that has one, else None
RECURSIVE search_from(_, _, _)
search_from(s, i, tok) ==
    IF i > Len(s) THEN NoMatch
    ELSE IF match_at(s, i, tok).matched THEN match_at(s, i, tok)
    ELSE search_from(s, i + 1, tok)

re_search(tok, s) == search_from(s, 1, tok)

\* a call's outcome: a returned value or a raised exception
Ok(v) == [called |-> TRUE, raised |-> FALSE, value |-> v]

Raise == [called |-> TRUE, raised |-> TRUE, value |-> 0]

NotCalled == [called |-> FALSE, raised |-> FALSE, value |-> 0]

\* int(m.group(1)); on None (no match) the attribute access raises
int_group1(m) == IF m.matched THEN Ok(int(m.g1)) ELSE Raise

(*************************** convert_to_months *****************************)
\* the same without the 'if years_match else 0' guards
convert_to_months_unguarded(t) ==
    IF t.kind = "str" THEN
        LET years == int_group1(re_search("Year", t.val))
            months == int_group1(re_search("Month", t.val))
        IN  IF years.raised \/ months.raised THEN Raise
            ELSE Ok(years.value * 12 + months.value)
    ELSE Ok(0)

\* prior_summary.py
convert_to_months_prior(t) ==
    IF t.kind = "str" THEN
        LET years_match == re_search("Year", t.val)
            months_match == re_search("Month", t.val)
            years == IF years_match.matched THEN int_group1(years_match) ELSE Ok(0)
            months == IF months_match.matched THEN int_group1(months_match) ELSE Ok(0)
        IN  IF years.raised \/ months.raised THEN Raise
            ELSE Ok(years.value * 12 + months.value)
    ELSE Ok(0)

\* current_clean.py
convert_to_months_current(t) ==
    IF t.kind = "str" THEN
        LET years_match == re_search("Year", t.val)
            months_match == re_search("Month", t.val)
            years == IF years_match.matched THEN int_group1(years_match) ELSE Ok(0)
            months == IF months_match.matched THEN int_group1(months_match) ELSE Ok(0)
        IN  IF years.raised \/ months.raised THEN Raise
            ELSE Ok(years.value * 12 + months.value)
    ELSE Ok(0)

(*************************** tables ****************************************)
\* a DataFrame: column names in order and rows in order, each row holding
\* one value per column; None is the value the functions return on failure
DF(cols, rows) == [none |-> FALSE, columns |-> cols, data |-> rows]

NoneDF == [none |-> TRUE, columns |-> <<>>, data |-> <<>>]

\* name in df.columns
HasCol(df, name) == \E i \in 1..Len(df.columns) : df.columns[i] = name

ColIx(df, name) ==
    CHOOSE i \in 1..Len(df.columns) :
        df.columns[i] = name /\ \A j \in 1..(i - 1) : df.columns[j] # name

\* df[name] of one row
Cell(df, row, name) == row[ColIx(df, name)]

\* str.strip() of a column name
RECURSIVE lstrip(_)
lstrip(s) == IF s # <<>> /\ s[1] \in Space THEN lstrip(Tail(s)) ELSE s

RECURSIVE rstrip(_)
rstrip(s) ==
    IF s # <<>> /\ s[Len(s)] \in Space THEN rstrip(SubSeq(s, 1, Len(s) - 1)) ELSE s

strip(s) == rstrip(lstrip(s))

lower_sym(c) ==
    CASE c = "CDCNO" -> "cdcno"
      [] c = "Case" -> "case"
      [] c = "Number" -> "number"
      [] OTHER -> c

\* str.lower()
lower(s) == [i \in 1..Len(s) |-> lower_sym(s[i])]

\* str.replace(old, new) for one-character old and new
replace(s, old, new) == [i \in 1..Len(s) |-> IF s[i] = old THEN new ELSE s[i]]

\* the text of a date "2020-01-DD": a Timestamp when DD is a day of January,
\* NaT for anything else (errors='coerce')
parse_date(s) ==
    IF /\ Len(s) = 3
       /\ s[1] = "2020-01-"
       /\ s[2] \in Digit
       /\ s[3] \in Digit
       /\ int(<<s[2], s[3]>>) \in 1..31
    THEN Timestamp(int(<<s[2], s[3]>>))
    ELSE NaT

\* pd.to_datetime(value, errors='coerce')
to_datetime(v) ==
    CASE v.kind = "str" -> parse_date(v.val)
      [] v.kind = "date" -> v
      [] OTHER -> NaT

\* pd.to_numeric(value, errors='coerce'): digits of a text give the number
to_numeric(v) ==
    CASE v.kind = "str" ->
            IF v.val # <<>> /\ \A i \in 1..Len(v.val) : v.val[i] \in Digit
            THEN Num(int(v.val)) ELSE NaN
      [] v.kind \in {"int", "float"} -> v
      [] OTHER -> NaN

\* (end - begin).dt.days
days_between(e, b) ==
    IF e.kind = "date" /\ b.kind = "date" THEN Num(e.n - b.n) ELSE NaN

\* days / 30.4375 as the fraction days*10000 / 304375
div_30_4375(v) == IF v.kind = "int" THEN Float(v.n * 10000, 304375) ELSE NaN

\* a > b on floats; every comparison with NaN is false
float_gt(a, b) == a.kind # "nan" /\ b.kind # "nan" /\ a.n * b.d > b.n * a.d

\* Python's max(a, b): b when b > a, else a
py_max(a, b) == IF float_gt(b, a) THEN b ELSE a

(*************************** prior_summary.py ******************************)
c_cdcno == <<"cdcno">>

c_case_number == <<"case", "_", "number">>

c_offense_begin_date == <<"offense_begin_date">>

c_offense_end_date == <<"offense_end_date">>

c_release_date == <<"release_date">>

c_offense_time_with_enhancement == <<"offense_time_with_enhancement">>

c_offense_description == <<"offense_description">>

c_offense_time_with_enhancement_months == <<"offense_time_with_enhancement_months">>

c_diff_in_days == <<"diff_in_days">>

c_diff_in_months == <<"diff_in_months">>

\* the list without the key column
required_columns_without_key ==
    <<c_offense_begin_date, c_offense_end_date, c_release_date,
      c_offense_time_with_enhancement, c_offense_description>>

required_columns ==
    <<c_cdcno, c_offense_begin_date, c_offense_end_date, c_release_date,
      c_offense_time_with_enhancement, c_offense_description>>

\* df.columns.str.strip().str.lower().str.replace(' ', '_')
prior_clean_columns(cols) ==
    [i \in 1..Len(cols) |-> replace(lower(strip(cols[i])), " ", "_")]

diff_in_months_floor(x) == py_max(Float(0, 1), x)

\* what load_prior_commitments makes of one row: the three dates converted,
\* then the columns ..._months, diff_in_days and diff_in_months appended
prior_row(df, r) ==
    LET begin == to_datetime(Cell(df, r, c_offense_begin_date))
        end == to_datetime(Cell(df, r, c_offense_end_date))
        release == to_datetime(Cell(df, r, c_release_date))
        months == Num(convert_to_months_prior(
                          Cell(df, r, c_offense_time_with_enhancement)).value)
        diff_in_days == days_between(end, begin)
        diff_in_months == diff_in_months_floor(div_30_4375(diff_in_days))
    IN  [r EXCEPT ![ColIx(df, c_offense_begin_date)] = begin,
                  ![ColIx(df, c_offense_end_date)] = end,
                  ![ColIx(df, c_release_date)] = release]
          \o <<months, diff_in_days, diff_in_months>>

\* load_prior_commitments applied to the table pd.read_csv returned
load_prior_commitments(csv) ==
    LET df == DF(prior_clean_columns(csv.columns), csv.data)
        missing_columns ==
            { i \in 1..Len(required_columns) : ~HasCol(df, required_columns[i]) }
    IN  IF missing_columns # {} THEN NoneDF
        ELSE DF(df.columns \o <<c_offense_time_with_enhancement_months,
                                c_diff_in_days, c_diff_in_months>>,
                [i \in 1..Len(df.data) |-> prior_row(df, df.data[i])])

\* order of the identifiers, as sorting the texts gives it
sym_rank(c) == CASE c = "A" -> 1 [] c = "B" -> 2 [] c = "C" -> 3 [] OTHER -> 4

key_rank(k) == IF k.val = <<>> THEN 0 ELSE sym_rank(k.val[1])

RECURSIVE sorted_keys(_)
sorted_keys(S) ==
    IF S = {} THEN <<>>
    ELSE LET k == CHOOSE x \in S : \A y \in S : key_rank(x) <= key_rank(y)
         IN  <<k>> \o sorted_keys(S \ {k})

RECURSIVE sum_ints(_)
sum_ints(vs) == IF vs = <<>> THEN 0 ELSE vs[1].n + sum_ints(Tail(vs))

\* the column name of every row of a group, in row order
column_of(df, rows, name) == [i \in 1..Len(rows) |-> Cell(df, rows[i], name)]

notna(vs) == SelectSeq(vs, LAMBDA v : ~isna(v))

\* 'min' and 'max' of a group's dates skip NaT; a group without dates gives NaT
agg_min(vs) ==
    LET ds == notna(vs)
    IN  IF ds = <<>> THEN NaT
        ELSE ds[CHOOSE i \in 1..Len(ds) : \A j \in 1..Len(ds) : ds[i].n <= ds[j].n]

agg_max(vs) ==
    LET ds == notna(vs)
    IN  IF ds = <<>> THEN NaT
        ELSE ds[CHOOSE i \in 1..Len(ds) : \A j \in 1..Len(ds) : ds[i].n >= ds[j].n]

\* 'nunique' counts the distinct values that are not missing
agg_nunique(vs) == Cardinality({ notna(vs)[i].n : i \in 1..Len(notna(vs)) })

\* 'count' instead of 'size': only the rows whose value is not missing
agg_count(vs) == Len(notna(vs))

\* 'size' counts the rows of the group
agg_size(vs) == Len(vs)

\* 'sum' and 'mean' skip missing values
agg_sum(vs) == sum_ints(notna(vs))

agg_mean(vs) ==
    IF notna(vs) = <<>> THEN NaN ELSE Float(sum_ints(notna(vs)), Len(notna(vs)))

summary_inputs ==
    <<c_cdcno, c_case_number, c_offense_description, c_offense_begin_date,
      c_offense_end_date, c_release_date, c_offense_time_with_enhancement_months>>

\* the keys groupby('cdcno') makes groups of: missing keys are dropped
group_keys(df) ==
    { Cell(df, df.data[i], c_cdcno) : i \in { j \in 1..Len(df.data) :
                                               ~isna(Cell(df, df.data[j], c_cdcno)) } }

group_rows(df, k) == SelectSeq(df.data, LAMBDA r : Cell(df, r, c_cdcno) = k)

summary_row(df, k) ==
    LET g == group_rows(df, k)
    IN  [cdcno |-> k,
         total_commitments_prior |-> agg_size(column_of(df, g, c_case_number)),
         offenses_description_list_prior |-> column_of(df, g, c_offense_description),
         first_commitment_date_prior |-> agg_min(column_of(df, g, c_offense_begin_date)),
         last_commitment_date_prior |-> agg_max(column_of(df, g, c_offense_end_date)),
         total_release_dates_prior |-> agg_nunique(column_of(df, g, c_release_date)),
         total_commitment_duration_months_prior |->
             agg_sum(column_of(df, g, c_offense_time_with_enhancement_months)),
         avg_commitment_duration_months_prior |->
             agg_mean(column_of(df, g, c_offense_time_with_enhancement_months))]

\* summarize_prior_commitments: KeyError when a column it names is absent,
\* else one row per group in key order
summarize_prior_commitments(df) ==
    IF \E i \in 1..Len(summary_inputs) : ~HasCol(df, summary_inputs[i])
    THEN [raised |-> TRUE, rows |-> <<>>]
    ELSE LET keys == sorted_keys(group_keys(df))
         IN  [raised |-> FALSE,
              rows |-> [i \in 1..Len(keys) |-> summary_row(df, keys[i])]]

(*************************** cleaning.py ***********************************)
c_aggregate_sentence_in_months == <<"aggregate_sentence_in_months">>

\* df.columns.str.strip().str.lower()
cleaning_clean_columns(cols) == [i \in 1..Len(cols) |-> lower(strip(cols[i]))]

\* positions of the columns of df other than the key
other_cols(df) == SelectSeq([i \in 1..Len(df.columns) |-> i],
                            LAMBDA i : df.columns[i] # c_cdcno)

\* a column name both sides have (other than the key) gets the side's suffix
suffixed(name, other, sfx) ==
    IF name # c_cdcno /\ HasCol(other, name) THEN Append(name, sfx) ELSE name

RECURSIVE flatten(_)
flatten(ss) == IF ss = <<>> THEN <<>> ELSE ss[1] \o flatten(Tail(ss))

\* an inner join: a left row without a match gives no row
joined_rows_inner(left, right, lrow) ==
    LET others == other_cols(right)
        matches == SelectSeq(right.data,
                       LAMBDA rrow : Cell(right, rrow, c_cdcno) = Cell(left, lrow, c_cdcno))
    IN  [m \in 1..Len(matches) |->
            lrow \o [i \in 1..Len(others) |-> matches[m][others[i]]]]

\* the rows one left row gives: one per right row with the same key, in the
\* right table's order, or one row with missing right-hand values
joined_rows(left, right, lrow) ==
    LET others == other_cols(right)
        matches == SelectSeq(right.data,
                       LAMBDA rrow : Cell(right, rrow, c_cdcno) = Cell(left, lrow, c_cdcno))
    IN  IF matches = <<>>
        THEN << lrow \o [i \in 1..Len(others) |-> NaN] >>
        ELSE [m \in 1..Len(matches) |->
                 lrow \o [i \in 1..Len(others) |-> matches[m][others[i]]]]

\* pd.merge(left, right, on='cdcno', how='left')
pd_merge_left(left, right) ==
    LET others == other_cols(right)
    IN  DF([i \in 1..Len(left.columns) |-> suffixed(left.columns[i], right, "_x")]
             \o [i \in 1..Len(others) |-> suffixed(right.columns[others[i]], left, "_y")],
           flatten([l \in 1..Len(left.data) |-> joined_rows(left, right, left.data[l])]))

\* merge_data: None and a message when either table lacks 'cdcno'
merge_data(demographics, commitments) ==
    IF ~HasCol(demographics, c_cdcno)
    THEN [df |-> NoneDF, out |-> <<"Error: 'cdcno' column missing in demographics data">>]
    ELSE IF ~HasCol(commitments, c_cdcno)
    THEN [df |-> NoneDF, out |-> <<"Error: 'cdcno' column missing in commitments data">>]
    ELSE [df |-> pd_merge_left(commitments, demographics), out |-> <<"Merged DataFrame">>]

\* merge_with_prior_summary: the same guard, then the second left join
merge_with_prior_summary(merged, prior_summary) ==
    IF ~HasCol(merged, c_cdcno)
    THEN [df |-> NoneDF, out |-> <<"Error: 'cdcno' column missing in merged data">>]
    ELSE IF ~HasCol(prior_summary, c_cdcno)
    THEN [df |-> NoneDF, out |-> <<"Error: 'cdcno' column missing in prior summary data">>]
    ELSE [df |-> pd_merge_left(merged, prior_summary), out |-> <<"Final DataFrame">>]

Unknown == Str(<<"Unknown">>)

\* df.fillna('Unknown'): every missing cell of every column
fillna_unknown(df) ==
    DF(df.columns,
       [r \in 1..Len(df.data) |->
           [c \in 1..Len(df.columns) |->
               IF isna(df.data[r][c]) THEN Unknown ELSE df.data[r][c]]])

\* if name in df.columns: df[name] = pd.to_datetime(df[name], errors='coerce')
dates_if_present(df, name) ==
    IF HasCol(df, name)
    THEN DF(df.columns,
            [r \in 1..Len(df.data) |->
                [df.data[r] EXCEPT ![ColIx(df, name)] = to_datetime(@)]])
    ELSE df

\* if name in df.columns: df[name] = pd.to_numeric(df[name], errors='coerce')
numbers_if_present(df, name) ==
    IF HasCol(df, name)
    THEN DF(df.columns,
            [r \in 1..Len(df.data) |->
                [df.data[r] EXCEPT ![ColIx(df, name)] = to_numeric(@)]])
    ELSE df

\* the fill applied last, after the conversions
clean_data_fill_last(merged) ==
    LET d1 == dates_if_present(merged, c_offense_begin_date)
        d2 == dates_if_present(d1, c_offense_end_date)
        n1 == numbers_if_present(d2, c_aggregate_sentence_in_months)
        n2 == numbers_if_present(n1, c_offense_time_with_enhancement)
    IN  fillna_unknown(n2)

\* clean_data: the fill comes first, then the date and number conversions
clean_data(merged) ==
    LET filled == fillna_unknown(merged)
        d1 == dates_if_present(filled, c_offense_begin_date)
        d2 == dates_if_present(d1, c_offense_end_date)
        n1 == numbers_if_present(d2, c_aggregate_sentence_in_months)
        n2 == numbers_if_present(n1, c_offense_time_with_enhancement)
    IN  n2

(*************************** current_clean.py ******************************)
c_offense_category == <<"offense_category">>

c_offense_time_with_enhancement_years == <<"offense_time_with_enhancement_years">>

\* last position of symbol c in p, 0 when absent (str.rfind)
rfind(p, c) ==
    IF \E i \in 1..Len(p) : p[i] = c
    THEN CHOOSE i \in 1..Len(p) : p[i] = c /\ \A j \in (i + 1)..Len(p) : p[j] # c
    ELSE 0

\* everything from the last dot of the path
splitext_from_last_dot(p) ==
    IF rfind(p, ".") = 0 THEN <<>> ELSE SubSeq(p, rfind(p, "."), Len(p))

\* os.path.splitext(p)[1]: from the last dot of the last path component, unless
\* that component has only dots before it
splitext_ext(p) ==
    LET sepIndex == rfind(p, "/")
        dotIndex == rfind(p, ".")
    IN  IF dotIndex > sepIndex
           /\ \E filenameIndex \in (sepIndex + 1)..(dotIndex - 1) : p[filenameIndex] # "."
        THEN SubSeq(p, dotIndex, Len(p))
        ELSE <<>>

\* .str.strip().str.lower().str.replace(' ', '_').str.replace('-', '_')
current_clean_columns(cols) ==
    [i \in 1..Len(cols) |-> replace(replace(lower(strip(cols[i])), " ", "_"), "-", "_")]

\* df.drop_duplicates(): the first of equal rows is kept
RECURSIVE drop_duplicates(_)
drop_duplicates(rows) ==
    IF rows = <<>> THEN <<>>
    ELSE LET n == Len(rows)
             before == drop_duplicates(SubSeq(rows, 1, n - 1))
         IN  IF \E i \in 1..(n - 1) : rows[i] = rows[n]
             THEN before ELSE Append(before, rows[n])

Failed(e, evs) == [raised |-> e, df |-> NoneDF, events |-> evs]

\* what load_and_clean_data makes of one row: the two dates converted, then
\* the columns ..._months and ..._years appended
current_row(df, r) ==
    LET months == convert_to_months_current(
                      Cell(df, r, c_offense_time_with_enhancement)).value
    IN  [r EXCEPT ![ColIx(df, c_offense_begin_date)] =
                       to_datetime(Cell(df, r, c_offense_begin_date)),
                  ![ColIx(df, c_offense_end_date)] =
                       to_datetime(Cell(df, r, c_offense_end_date))]
          \o <<Num(months), Float(months, 12)>>

\* load_and_clean_data(file_path), where csv is the content of the file and
\* readable tells whether the file can be read; events lists what it did
load_and_clean_data(file_path, csv, readable) ==
    LET ext == splitext_ext(file_path)
        reader == IF ext = <<".", "csv">> THEN "read_csv" ELSE "read_excel"
    IN  IF ext # <<".", "csv">> /\ ext # <<".", "xlsx">>
        THEN Failed("ValueError: Unsupported file type", <<>>)
        ELSE IF ~readable THEN Failed("OSError", <<reader>>)
        ELSE
        LET df == DF(current_clean_columns(csv.columns), csv.data)
            evs == <<reader, "clean columns", "log columns">>
        IN  IF \/ ~HasCol(df, c_offense_begin_date)
               \/ ~HasCol(df, c_offense_end_date)
               \/ ~HasCol(df, c_offense_time_with_enhancement)
            THEN Failed("KeyError", evs)
            ELSE [raised |-> "",
                  df |-> DF(df.columns \o <<c_offense_time_with_enhancement_months,
                                            c_offense_time_with_enhancement_years>>,
                            drop_duplicates([i \in 1..Len(df.data) |->
                                                current_row(df, df.data[i])])),
                  events |-> evs \o <<"convert", "drop_duplicates", "log cleaning completed">>]

\* summarize_data: KeyError on a missing column, and on a table whose offense
\* descriptions have no mode (no row with a description)
summarize_data(df) ==
    IF \/ ~HasCol(df, c_cdcno)
       \/ ~HasCol(df, c_offense_time_with_enhancement_years)
       \/ ~HasCol(df, c_offense_description)
    THEN "KeyError"
    ELSE IF \A i \in 1..Len(df.data) : isna(Cell(df, df.data[i], c_offense_description))
    THEN "KeyError"
    ELSE IF ~HasCol(df, c_offense_category) THEN "KeyError"
    ELSE ""

(*************************** inputs of convert_to_months *******************)
\* values a cell can hold that are not text: None, a float NaN, a number
NonStrings == {PyNone, NaN, Num(5)}

Alphabet == {"1", "2", " ", "Year", "Month", "s"}

\* texts with the tokens in lower case, and without any token
OtherTexts ==
    {<<"1", " ", "year">>, <<"4", " ", "month", "s">>, <<"unknown">>,
     <<"1", " ", "year", " ", "4", " ", "Month", "s">>,
     <<"1", " ", "Year", " ", "4", " ", "month", "s">>}

RECURSIVE SeqsUpTo(_, _)
SeqsUpTo(S, n) ==
    IF n = 0 THEN {<<>>}
    ELSE LET shorter == SeqsUpTo(S, n - 1)
         IN  shorter \cup { Append(s, c) : s \in { t \in shorter : Len(t) = n - 1 }, c \in S }

\* str(n) for a natural number
RECURSIVE Dec(_)
Dec(n) == IF n < 10 THEN <<DigitChar(n)>> ELSE Append(Dec(n \div 10), DigitChar(n % 10))

Gap == {<<>>, <<" ">>}

Plural == {<<>>, <<"s">>}

YearPart(n) == { Dec(n) \o g \o <<"Year">> \o p : g \in Gap, p \in Plural }

MonthPart(m) == { Dec(m) \o g \o <<"Month">> \o p : g \in Gap, p \in Plural }

\* the duration texts "N Year", "M Month", "N Year M Month" in either order
Forms(n, m) ==
    { y \o <<" ">> \o mo : y \in YearPart(n), mo \in MonthPart(m) }
      \cup { mo \o <<" ">> \o y : y \in YearPart(n), mo \in MonthPart(m) }

ValidForms ==
    UNION { { [str |-> f, n |-> n, m |-> m] : f \in Forms(n, m) } :
            n \in 0..MaxNum, m \in 0..MaxNum }
      \cup UNION { { [str |-> f, n |-> n, m |-> 0] : f \in YearPart(n) } : n \in 0..MaxNum }
      \cup UNION { { [str |-> f, n |-> 0, m |-> m] : f \in MonthPart(m) } : m \in 0..MaxNum }

TimeInputs ==
    NonStrings \cup { Str(s) : s \in SeqsUpTo(Alphabet, MaxLen) }
               \cup { Str(v.str) : v \in ValidForms }
               \cup { Str(s) : s \in OtherTexts }

(*************************** input files ***********************************)
T(sym) == Str(<<sym>>)

Jan(d1, d2) == Str(<<"2020-01-", d1, d2>>)

\* prior_commitments.csv: the header as written in the file, and sample rows
\* (cdcno, case number, begin, end, release, time with enhancement, description)
PriorKeyHeaders == {<<"cdcno">>, <<" ", "CDCNO", " ">>, <<"cdc", " ", "no">>}

PriorCaseHeaders == {<<"Case", " ", "Number">>, <<"caseno">>}

PriorHeader(k, c) ==
    <<k, c, c_offense_begin_date, c_offense_end_date, c_release_date,
      c_offense_time_with_enhancement, c_offense_description>>

P1 == <<T("A"), T("c1"), Jan("0", "5"), Jan("2", "0"), Jan("2", "5"),
        Str(<<"3", " ", "Month", "s">>), T("d1")>>

P2 == <<T("A"), T("c2"), Jan("2", "0"), Jan("0", "5"), Jan("2", "5"),
        Str(<<"5", " ", "Month", "s">>), T("d2")>>

P3 == <<T("A"), T("c3"), T("garbage"), Jan("2", "0"), NaN,
        Str(<<"7", " ", "Month", "s">>), NaN>>

P4 == <<T("B"), T("c4"), Jan("0", "5"), Jan("0", "5"), Jan("1", "0"),
        Str(<<"1", "0", " ", "Month", "s">>), T("d1")>>

P5 == <<T("B"), NaN, NaN, NaN, NaN, NaN, T("d2")>>

P6 == <<NaN, T("c6"), Jan("2", "0"), Jan("3", "2"), Jan("2", "5"),
        Str(<<"1", " ", "Year", " ", "4", " ", "Month", "s">>), T("d3")>>

PriorSampleRows == {P1, P2, P3, P4, P5, P6}

\* three commitments of A lasting 3, 5 and 7 months, two of B lasting 10 and 0
ExampleRows == <<P1, P2, P3, P4, P5>>

PriorFiles ==
    { DF(PriorHeader(k, c), rows) :
        k \in PriorKeyHeaders, c \in PriorCaseHeaders,
        rows \in SeqsUpTo(PriorSampleRows, MaxRows) \cup {ExampleRows} }

\* current_commitments.csv, demographics.csv and the prior summary read by
\* cleaning.py
\* a key column header that cleans to 'cdcno', and one that does not
KeyHeader == <<" ", "CDCNO", " ">>

OtherKeyHeader == <<"cdc", " ", "no">>

CommitmentsHeader(k) ==
    <<k, c_offense_begin_date, c_aggregate_sentence_in_months, c_offense_description>>

K1 == <<T("A"), Jan("0", "5"), Num(12), T("d1")>>

K2 == <<T("B"), T("garbage"), Str(<<"1", "2">>), NaN>>

K3 == <<NaN, NaN, NaN, T("d2")>>

\* read_csv reads a key column without any identifier as a column of floats,
\* which pd.merge refuses to join with identifiers; the files read here have an
\* identifier in some row, or no row
HasIdentifier(rows) == rows = <<>> \/ \E i \in 1..Len(rows) : rows[i][1].kind = "str"

CommitmentsFiles ==
    { DF(CommitmentsHeader(KeyHeader), rows) :
        rows \in { s \in SeqsUpTo({K1, K2, K3}, MaxLeft) : HasIdentifier(s) } }
      \cup { DF(CommitmentsHeader(OtherKeyHeader), rows) : rows \in {<<>>, <<K1, K3>>} }

D1 == <<T("A"), T("e1")>>

D2 == <<T("A"), T("e2")>>

D3 == <<NaN, T("e3")>>

DemographicsFiles ==
    { DF(<<KeyHeader, <<"ethnicity">> >>, rows) :
        rows \in { s \in SeqsUpTo({D1, D2, D3}, MaxDemo) : HasIdentifier(s) }
                   \cup {<<D1, D2>>, <<D2, D3, D1>>} }
      \cup { DF(<<OtherKeyHeader, <<"ethnicity">> >>, rows) : rows \in {<<>>, <<D1, D3>>} }

S1 == <<T("A"), Num(2)>>

S2 == <<T("A"), Num(3)>>

\* the second column is a summary measure, or a column the commitments have too
PriorSummaryHeaders ==
    {<<KeyHeader, <<"total_commitments_prior">> >>, <<KeyHeader, c_offense_begin_date>>}

PriorSummaryFiles ==
    { DF(h, rows) :
        h \in PriorSummaryHeaders, rows \in SeqsUpTo({S1, S2}, MaxPriorSum) \cup {<<S1, S2>>} }
      \cup { DF(<<OtherKeyHeader, <<"total_commitments_prior">> >>, rows) :
               rows \in {<<>>, <<S1, S2>>} }

\* the file current_clean.py reads: the path it is given and its content
PathAlphabet == {"f", "/", ".", "csv"}

OtherPaths ==
    {<<"f", ".", "xlsx">>, <<"f", ".", "CSV">>, <<"f", ".", "txt">>,
     <<"f", ".", "csv", ".", "xlsx">>, <<"f", ".", "xlsx", "/", "f">>,
     <<"data", "/", "data", "/", "current_commitments", ".", "csv">>}

Paths == SeqsUpTo(PathAlphabet, MaxPath) \cup OtherPaths

CurrentHeaders ==
    { <<k, b, c_offense_end_date, c_offense_time_with_enhancement,
        c_offense_description, c_offense_category>> :
        k \in {<<"CDCNO", " ">>, <<"cdc", "-", "no">>},
        b \in {c_offense_begin_date, <<"begin">>} }

U1 == <<T("A"), Jan("0", "5"), Jan("2", "0"),
        Str(<<"1", " ", "Year", " ", "4", " ", "Month", "s">>), T("d1"), T("cat1")>>

U2 == <<T("B"), T("garbage"), NaN, Str(<<"5", " ", "Month", "s">>), NaN, T("cat2")>>

CurrentFiles ==
    { DF(h, rows) : h \in CurrentHeaders, rows \in SeqsUpTo({U1, U2}, MaxCurRows) }

NoSummary == [none |-> TRUE, rows |-> <<>>]

(*************************** behaviour *************************************)
Idle ==
    /\ trace = <<>>
    /\ stdout = <<>>
    /\ log = <<>>
    /\ exc = ""
    /\ out_file = NoneDF
    /\ summary_csv = NoSummary
    /\ prior_commitments_df = NoneDF
    /\ summary_df = NoSummary
    /\ demographics_df = NoneDF
    /\ commitments_df = NoneDF
    /\ prior_summary_df = NoneDF
    /\ merged_df = NoneDF
    /\ final_df = NoneDF
    /\ cleaned_df = NoneDF
    /\ ret_prior = NotCalled
    /\ ret_current = NotCalled

InitConvert ==
    /\ script = "convert_to_months"
    /\ pc = "call"
    /\ Idle
    /\ time_str \in TimeInputs
    /\ prior_csv = NoneDF
    /\ demographics_csv = NoneDF
    /\ commitments_csv = NoneDF
    /\ prior_summary_csv = NoneDF
    /\ input_file = <<>>
    /\ input_csv = NoneDF

InitPrior ==
    /\ script = "prior_summary"
    /\ pc = "load"
    /\ Idle
    /\ time_str = PyNone
    /\ prior_csv \in PriorFiles
    /\ demographics_csv = NoneDF
    /\ commitments_csv = NoneDF
    /\ prior_summary_csv = NoneDF
    /\ input_file = <<>>
    /\ input_csv = NoneDF

InitCleaning ==
    /\ script = "cleaning"
    /\ pc = "load"
    /\ Idle
    /\ time_str = PyNone
    /\ prior_csv = NoneDF
    /\ demographics_csv \in DemographicsFiles
    /\ commitments_csv \in CommitmentsFiles
    /\ prior_summary_csv \in PriorSummaryFiles
    /\ input_file = <<>>
    /\ input_csv = NoneDF

InitCurrent ==
    /\ script = "current_clean"
    /\ pc = "load"
    /\ Idle
    /\ time_str = PyNone
    /\ prior_csv = NoneDF
    /\ demographics_csv = NoneDF
    /\ commitments_csv = NoneDF
    /\ prior_summary_csv = NoneDF
    /\ input_file \in Paths
    /\ input_csv \in CurrentFiles

(* the two copies of convert_to_months, each called once on the input *)
CallConvertPrior ==
    /\ script = "convert_to_months"
    /\ ~ret_prior.called
    /\ ret_prior' = convert_to_months_prior(time_str)
    /\ pc' = IF ret_current.called THEN "done" ELSE pc
    /\ UNCHANGED <<script, trace, stdout, log, exc, time_str, ret_current, priorVars,
                   cleaningVars, currentVars, cleaned_df, out_file>>

CallConvertCurrent ==
    /\ script = "convert_to_months"
    /\ ~ret_current.called
    /\ ret_current' = convert_to_months_current(time_str)
    /\ pc' = IF ret_prior.called THEN "done" ELSE pc
    /\ UNCHANGED <<script, trace, stdout, log, exc, time_str, ret_prior, priorVars,
                   cleaningVars, currentVars, cleaned_df, out_file>>

(* prior_summary.py main *)
PriorLoad ==
    /\ script = "prior_summary" /\ pc = "load"
    /\ trace' = Append(trace, "load_prior_commitments")
    /\ \E readable \in BOOLEAN :
         IF ~readable
         THEN /\ exc' = "OSError"
              /\ pc' = "done"
              /\ UNCHANGED <<prior_commitments_df, stdout>>
         ELSE LET df == load_prior_commitments(prior_csv)
              IN  /\ prior_commitments_df' = df
                  /\ exc' = exc
                  /\ IF df.none
                     THEN /\ stdout' = stdout \o
                                <<"Error: Missing columns",
                                  "Error: Could not load or process the prior commitments data.">>
                          /\ pc' = "done"
                     ELSE /\ stdout' = stdout
                          /\ pc' = "summarize"
    /\ UNCHANGED <<script, log, convVars, prior_csv, summary_df, summary_csv,
                   cleaningVars, currentVars, cleaned_df, out_file>>

PriorSummarize ==
    /\ script = "prior_summary" /\ pc = "summarize"
    /\ trace' = Append(trace, "summarize_prior_commitments")
    /\ LET r == summarize_prior_commitments(prior_commitments_df)
       IN  IF r.raised
           THEN /\ exc' = "KeyError"
                /\ pc' = "done"
                /\ UNCHANGED summary_df
           ELSE /\ summary_df' = [none |-> FALSE, rows |-> r.rows]
                /\ pc' = "save"
                /\ exc' = exc
    /\ UNCHANGED <<script, stdout, log, convVars, prior_csv, prior_commitments_df,
                   summary_csv, cleaningVars, currentVars, cleaned_df, out_file>>

PriorSave ==
    /\ script = "prior_summary" /\ pc = "save"
    /\ trace' = Append(trace, "save_summary_to_csv")
    /\ pc' = "done"
    /\ \E writable \in BOOLEAN :
         IF writable
         THEN /\ summary_csv' = summary_df
              /\ stdout' = Append(stdout, "Summary data saved")
              /\ exc' = exc
         ELSE /\ exc' = "OSError"
              /\ UNCHANGED <<summary_csv, stdout>>
    /\ UNCHANGED <<script, log, convVars, prior_csv, prior_commitments_df, summary_df,
                   cleaningVars, currentVars, cleaned_df, out_file>>

(* cleaning.py main *)
CleaningLoad ==
    /\ script = "cleaning" /\ pc = "load"
    /\ trace' = Append(trace, "Load")
    /\ \E readable \in BOOLEAN :
         IF ~readable
         THEN /\ exc' = "OSError"
              /\ pc' = "done"
              /\ UNCHANGED <<demographics_df, commitments_df, prior_summary_df, stdout>>
         ELSE /\ demographics_df' =
                    DF(cleaning_clean_columns(demographics_csv.columns), demographics_csv.data)
              /\ commitments_df' =
                    DF(cleaning_clean_columns(commitments_csv.columns), commitments_csv.data)
              /\ prior_summary_df' =
                    DF(cleaning_clean_columns(prior_summary_csv.columns), prior_summary_csv.data)
              /\ stdout' = stdout \o <<"Demographics Columns", "Commitments Columns">>
              /\ pc' = "merge_data"
              /\ exc' = exc
    /\ UNCHANGED <<script, log, convVars, priorVars, cleaningInputs, merged_df, final_df,
                   currentVars, cleaned_df, out_file>>

\* the first join without the test for an empty result
CleaningMergeAnySize ==
    /\ script = "cleaning" /\ pc = "merge_data"
    /\ trace' = Append(trace, "Join")
    /\ LET r == merge_data(demographics_df, commitments_df)
       IN  /\ merged_df' = r.df
           /\ IF ~r.df.none
              THEN /\ pc' = "merge_with_prior_summary"
                   /\ stdout' = stdout \o r.out
              ELSE /\ pc' = "done"
                   /\ stdout' = stdout \o r.out \o <<"No data to clean or merge.">>
    /\ UNCHANGED <<script, log, exc, convVars, priorVars, cleaningInputs, demographics_df,
                   commitments_df, prior_summary_df, final_df, currentVars, cleaned_df,
                   out_file>>

CleaningMerge ==
    /\ script = "cleaning" /\ pc = "merge_data"
    /\ trace' = Append(trace, "Join")
    /\ LET r == merge_data(demographics_df, commitments_df)
       IN  /\ merged_df' = r.df
           /\ IF ~r.df.none /\ Len(r.df.data) > 0
              THEN /\ pc' = "merge_with_prior_summary"
                   /\ stdout' = stdout \o r.out
              ELSE /\ pc' = "done"
                   /\ stdout' = stdout \o r.out \o <<"No data to clean or merge.">>
    /\ UNCHANGED <<script, log, exc, convVars, priorVars, cleaningInputs, demographics_df,
                   commitments_df, prior_summary_df, final_df, currentVars, cleaned_df,
                   out_file>>

CleaningMergePrior ==
    /\ script = "cleaning" /\ pc = "merge_with_prior_summary"
    /\ trace' = Append(trace, "Join-with-prior-summary")
    /\ LET r == merge_with_prior_summary(merged_df, prior_summary_df)
       IN  /\ final_df' = r.df
           /\ IF ~r.df.none
              THEN /\ pc' = "clean_data"
                   /\ stdout' = stdout \o r.out
              ELSE /\ pc' = "done"
                   /\ stdout' = stdout \o r.out \o <<"No data to merge with prior summary.">>
    /\ UNCHANGED <<script, log, exc, convVars, priorVars, cleaningInputs, demographics_df,
                   commitments_df, prior_summary_df, merged_df, currentVars, cleaned_df,
                   out_file>>

\* clean_data changes the table it is given and returns it
CleaningClean ==
    /\ script = "cleaning" /\ pc = "clean_data"
    /\ trace' = Append(trace, "Normalize/Clean")
    /\ cleaned_df' = clean_data(final_df)
    /\ final_df' = cleaned_df'
    /\ stdout' = stdout \o
          (IF HasCol(final_df, c_aggregate_sentence_in_months) THEN <<>>
           ELSE <<"Warning: 'aggregate_sentence_in_months' column is missing.">>)
          \o (IF HasCol(final_df, c_offense_time_with_enhancement) THEN <<>>
              ELSE <<"Warning: 'offense_time_with_enhancement' column is missing.">>)
    /\ pc' = "save_data"
    /\ UNCHANGED <<script, log, exc, convVars, priorVars, cleaningInputs, demographics_df,
                   commitments_df, prior_summary_df, merged_df, currentVars, out_file>>

CleaningSave ==
    /\ script = "cleaning" /\ pc = "save_data"
    /\ trace' = Append(trace, "Save")
    /\ pc' = "done"
    /\ \E writable \in BOOLEAN :
         IF writable
         THEN /\ out_file' = cleaned_df
              /\ stdout' = Append(stdout, "Cleaned data saved")
              /\ exc' = exc
         ELSE /\ exc' = "OSError"
              /\ UNCHANGED <<out_file, stdout>>
    /\ UNCHANGED <<script, log, convVars, priorVars, cleaningVars, currentVars, cleaned_df>>

(* current_clean.py main: every stage runs inside the try block *)
\* logging.info(text) and logging.error(f"An error occurred: {e}")
Info(text) == <<"INFO", text>>

Error(e) == <<"ERROR", e>>

CurrentLoad ==
    /\ script = "current_clean" /\ pc = "load"
    /\ \E readable \in BOOLEAN :
         LET r == load_and_clean_data(input_file, input_csv, readable)
         IN  /\ trace' = trace \o <<"load_and_clean_data">> \o r.events
             /\ cleaned_df' = r.df
             /\ IF r.raised # ""
                THEN /\ log' = Append(log, Error(r.raised))
                     /\ pc' = "done"
                ELSE /\ log' = log \o <<Info("Loaded data with columns"),
                                        Info("Data cleaning completed.")>>
                     /\ pc' = "summarize"
    /\ UNCHANGED <<script, stdout, exc, convVars, priorVars, cleaningVars, currentVars,
                   out_file>>

\* summarize_data called outside the try block: its exception ends the process
CurrentSummarizeUncaught ==
    /\ script = "current_clean" /\ pc = "summarize"
    /\ trace' = Append(trace, "summarize_data")
    /\ IF summarize_data(cleaned_df) # ""
       THEN /\ exc' = summarize_data(cleaned_df)
            /\ log' = log
            /\ pc' = "done"
       ELSE /\ log' = Append(log, Info("Summary Statistics"))
            /\ pc' = "visualize"
            /\ exc' = exc
    /\ UNCHANGED <<script, stdout, convVars, priorVars, cleaningVars, currentVars,
                   cleaned_df, out_file>>

CurrentSummarize ==
    /\ script = "current_clean" /\ pc = "summarize"
    /\ trace' = Append(trace, "summarize_data")
    /\ IF summarize_data(cleaned_df) # ""
       THEN /\ log' = Append(log, Error(summarize_data(cleaned_df)))
            /\ pc' = "done"
       ELSE /\ log' = Append(log, Info("Summary Statistics"))
            /\ pc' = "visualize"
    /\ UNCHANGED <<script, stdout, exc, convVars, priorVars, cleaningVars, currentVars,
                   cleaned_df, out_file>>

\* visualize_data writes three plots; the directory or a plot may fail
CurrentVisualize ==
    /\ script = "current_clean" /\ pc = "visualize"
    /\ trace' = Append(trace, "visualize_data")
    /\ \E ok \in BOOLEAN :
         IF ok
         THEN /\ log' = Append(log, Info("Plots saved in directory"))
              /\ pc' = "save"
         ELSE /\ log' = Append(log, Error("OSError"))
              /\ pc' = "done"
    /\ UNCHANGED <<script, stdout, exc, convVars, priorVars, cleaningVars, currentVars,
                   cleaned_df, out_file>>

CurrentSave ==
    /\ script = "current_clean" /\ pc = "save"
    /\ trace' = Append(trace, "save_cleaned_data")
    /\ pc' = "done"
    /\ \E writable \in BOOLEAN :
         IF writable
         THEN /\ out_file' = cleaned_df
              /\ log' = log \o <<Info("Cleaned data saved"),
                                 Info("Script completed successfully.")>>
         ELSE /\ log' = Append(log, Error("OSError"))
              /\ UNCHANGED out_file
    /\ UNCHANGED <<script, stdout, exc, convVars, priorVars, cleaningVars, currentVars,
                   cleaned_df>>

(*************************** specifications ********************************)
NextConvert == CallConvertPrior \/ CallConvertCurrent

NextPrior == PriorLoad \/ PriorSummarize \/ PriorSave

NextCleaning ==
    CleaningLoad \/ CleaningMerge \/ CleaningMergePrior \/ CleaningClean \/ CleaningSave

NextCurrent == CurrentLoad \/ CurrentSummarize \/ CurrentVisualize \/ CurrentSave

SpecConvert == InitConvert /\ [][NextConvert]_vars

SpecPrior == InitPrior /\ [][NextPrior]_vars

SpecCleaning == InitCleaning /\ [][NextCleaning]_vars

SpecCurrent == InitCurrent /\ [][NextCurrent]_vars

\* the two scripts that guard against a missing 'cdcno' column
SpecGuards == (InitPrior \/ InitCleaning) /\ [][NextPrior \/ NextCleaning]_vars

Init == InitConvert \/ InitPrior \/ InitCleaning \/ InitCurrent

Next == NextConvert \/ NextPrior \/ NextCleaning \/ NextCurrent

Spec == Init /\ [][Next]_vars

(*************************** properties ************************************)
HasToken(s) == \E i \in 1..Len(s) : s[i] \in {"Year", "Month"}

\* C1: each copy of convert_to_months returns 12*N+M for every duration text
\* "N Year", "M Month" or "N Year M Month" (either order, optional plural s),
\* returns 0 for an input that is not text or holds neither token, and never
\* raises.
C1_DurationToMonths ==
    \A r \in {ret_prior, ret_current} :
        r.called =>
            /\ ~r.raised
            /\ time_str.kind # "str" => r.value = 0
            /\ (time_str.kind = "str" /\ ~HasToken(time_str.val)) => r.value = 0
            /\ \A v \in ValidForms : time_str.val = v.str => r.value = 12 * v.n + v.m

C1_Witness ==
    /\ time_str = Str(<<"1", " ", "Year", " ", "4", " ", "Month", "s">>)
    /\ ret_prior.called /\ ret_prior.value = 16
    /\ ret_current.called /\ ret_current.value = 16

\* the places where a "<digits> tok" occurrence starts: a whole run of digits,
\* then blanks or nothing, then tok
Occurrences(s, tok) ==
    { i \in 1..Len(s) :
        /\ s[i] \in Digit
        /\ (i = 1 \/ s[i - 1] \notin Digit)
        /\ LET k == RunEnd(s, RunEnd(s, i, Digit), Space)
           IN  k <= Len(s) /\ s[k] = tok }

FirstNumber(s, tok) ==
    IF Occurrences(s, tok) = {} THEN 0
    ELSE LET i == CHOOSE o \in Occurrences(s, tok) : \A q \in Occurrences(s, tok) : o <= q
         IN  int(SubSeq(s, i, RunEnd(s, i, Digit) - 1))

\* C10: the two copies of convert_to_months return the same non-negative
\* integer on every input, and of several "<digits> Year" or "<digits> Month"
\* occurrences both use the first one of each token.
C10_CopiesEquivalent ==
    (ret_prior.called /\ ret_current.called) =>
        /\ ret_prior = ret_current
        /\ ~ret_prior.raised /\ ret_prior.value >= 0
        /\ time_str.kind = "str" =>
              ret_current.value = 12 * FirstNumber(time_str.val, "Year")
                                    + FirstNumber(time_str.val, "Month")

C10_Witness ==
    /\ time_str = Str(<<"1", "Year", "2", "Year">>)
    /\ ret_prior.called /\ ret_current.called
    /\ ret_prior.value = 12 /\ ret_current.value = 12

InTrace(stage) == \E i \in 1..Len(trace) : trace[i] = stage

\* the number of rows of right whose key is k
MatchCount(right, k) ==
    Cardinality({ j \in 1..Len(right.data) : Cell(right, right.data[j], c_cdcno) = k })

KeyOf(df, i) == Cell(df, df.data[i], c_cdcno)

RECURSIVE ExpectedRows(_, _, _)
ExpectedRows(left, right, n) ==
    IF n = 0 THEN 0
    ELSE ExpectedRows(left, right, n - 1)
           + (IF MatchCount(right, KeyOf(left, n)) = 0 THEN 1
              ELSE MatchCount(right, KeyOf(left, n)))

KeyUnique(df) ==
    \A i, j \in 1..Len(df.data) : KeyOf(df, i) = KeyOf(df, j) => i = j

LeftPreserving(left, right, result) ==
    /\ Len(result.data) = ExpectedRows(left, right, Len(left.data))
    /\ KeyUnique(right) => Len(result.data) = Len(left.data)
    /\ \A i \in 1..Len(left.data) :
          \E j \in 1..Len(result.data) :
              /\ SubSeq(result.data[j], 1, Len(left.columns)) = left.data[i]
              /\ MatchCount(right, KeyOf(left, i)) = 0 =>
                    \A c \in (Len(left.columns) + 1)..Len(result.columns) :
                        isna(result.data[j][c])

\* C2: when both inputs have a cdcno column, merge_data and
\* merge_with_prior_summary return as many rows as the sum over the left rows of
\* max(1, number of right rows with the same cdcno), which is the left row count
\* when cdcno is unique on the right; every left row appears at least once, with
\* the right-hand columns missing where nothing matches.
C2_JoinLeftPreserving ==
    /\ (InTrace("Join") /\ HasCol(demographics_df, c_cdcno) /\ HasCol(commitments_df, c_cdcno))
          => /\ ~merged_df.none
             /\ LeftPreserving(commitments_df, demographics_df, merged_df)
    /\ (pc = "clean_data" /\ HasCol(prior_summary_df, c_cdcno))
          => /\ ~final_df.none
             /\ LeftPreserving(merged_df, prior_summary_df, final_df)

\* both joins done, each with a left row that fans out and one without a match
C2_Witness ==
    /\ pc = "clean_data"
    /\ Len(merged_df.data) > Len(commitments_df.data)
    /\ Len(final_df.data) > Len(merged_df.data)
    /\ \E i \in 1..Len(commitments_df.data) :
          MatchCount(demographics_df, KeyOf(commitments_df, i)) = 0
    /\ \E i \in 1..Len(merged_df.data) :
          MatchCount(prior_summary_df, KeyOf(merged_df, i)) = 0

PriorColumns == prior_clean_columns(prior_csv.columns)

PriorLacksKey == \A i \in 1..Len(PriorColumns) : PriorColumns[i] # c_cdcno

AnyTable ==
    {demographics_df, commitments_df, prior_summary_df, merged_df, final_df}

\* C3: on a table lacking the cdcno column, merge_data and
\* merge_with_prior_summary return None, and load_prior_commitments returns None
\* so that summarize_prior_commitments is not called; nothing is raised and the
\* caller runs no later stage.
C3_MissingKeyGuard ==
    /\ \A l \in AnyTable : \A r \in AnyTable :
          (~HasCol(l, c_cdcno) \/ ~HasCol(r, c_cdcno)) =>
              merge_data(l, r).df.none /\ merge_with_prior_summary(l, r).df.none
    /\ (script = "cleaning" /\ InTrace("Join")
          /\ (~HasCol(demographics_df, c_cdcno) \/ ~HasCol(commitments_df, c_cdcno)))
          => /\ merged_df.none /\ exc = "" /\ pc = "done"
             /\ trace = <<"Load", "Join">>
             /\ final_df.none /\ cleaned_df.none /\ out_file.none
    /\ (script = "cleaning" /\ InTrace("Join-with-prior-summary")
          /\ ~HasCol(prior_summary_df, c_cdcno))
          => /\ final_df.none /\ exc = "" /\ pc = "done"
             /\ trace = <<"Load", "Join", "Join-with-prior-summary">>
             /\ cleaned_df.none /\ out_file.none
    /\ (script = "prior_summary" /\ InTrace("load_prior_commitments")
          /\ exc # "OSError" /\ PriorLacksKey)
          => /\ prior_commitments_df.none /\ exc = "" /\ pc = "done"
             /\ trace = <<"load_prior_commitments">>
             /\ summary_df.none /\ summary_csv.none

\* the prior commitments lack cdcno (and nothing else) and main has returned
C3_Witness ==
    /\ script = "prior_summary" /\ pc = "done" /\ exc = ""
    /\ PriorLacksKey
    /\ \E i \in 1..Len(PriorColumns) : PriorColumns[i] = c_case_number
    /\ Len(prior_csv.data) > 0
    /\ prior_commitments_df.none
    /\ Len(stdout) = 2

LoadedRows == prior_commitments_df.data

\* C4: in the table load_prior_commitments returns, diff_in_days and
\* diff_in_months of every row are >= 0, never negative and never missing.
C4_DiffsNeverNegative ==
    (script = "prior_summary" /\ ~prior_commitments_df.none) =>
        \A i \in 1..Len(LoadedRows) :
            LET days == Cell(prior_commitments_df, LoadedRows[i], c_diff_in_days)
                months == Cell(prior_commitments_df, LoadedRows[i], c_diff_in_months)
            IN  /\ ~isna(days) /\ days.n >= 0
                /\ ~isna(months) /\ months.n >= 0

\* the non-missing cdcno values of the loaded table
PresentKeys ==
    { Cell(prior_commitments_df, LoadedRows[i], c_cdcno) : i \in
        { j \in 1..Len(LoadedRows) :
            ~isna(Cell(prior_commitments_df, LoadedRows[j], c_cdcno)) } }

RowsOf(k) ==
    { i \in 1..Len(LoadedRows) : Cell(prior_commitments_df, LoadedRows[i], c_cdcno) = k }

MonthsOf(i) ==
    Cell(prior_commitments_df, LoadedRows[i], c_offense_time_with_enhancement_months).n

RECURSIVE SumMonths(_)
SumMonths(I) ==
    IF I = {} THEN 0
    ELSE LET i == CHOOSE x \in I : TRUE IN MonthsOf(i) + SumMonths(I \ {i})

\* C7: summarize_prior_commitments gives exactly one row per distinct cdcno of
\* its input; in it total_commitments_prior is the number of input rows of that
\* cdcno, total_commitment_duration_months_prior the sum of their months, and
\* avg_commitment_duration_months_prior that sum divided by that number
\* (durations 3,5,7 of A and 10,0 of B: two rows, sums 15 and 10, means 5 and 5).
C7_SummaryPerIndividual ==
    (script = "prior_summary" /\ ~summary_df.none) =>
        LET rows == summary_df.rows
        IN  /\ { rows[i].cdcno : i \in 1..Len(rows) } = PresentKeys
            /\ Len(rows) = Cardinality(PresentKeys)
            /\ \A i \in 1..Len(rows) :
                  LET n == Cardinality(RowsOf(rows[i].cdcno))
                      total == SumMonths(RowsOf(rows[i].cdcno))
                      avg == rows[i].avg_commitment_duration_months_prior
                  IN  /\ rows[i].total_commitments_prior = n
                      /\ rows[i].total_commitment_duration_months_prior = total
                      /\ avg.kind = "float" /\ avg.n * n = total * avg.d
            /\ prior_csv.data = ExampleRows =>
                  /\ Len(rows) = 2
                  /\ rows[1].total_commitment_duration_months_prior = 15
                  /\ rows[2].total_commitment_duration_months_prior = 10
                  /\ \A i \in 1..2 :
                        rows[i].avg_commitment_duration_months_prior.n
                          = 5 * rows[i].avg_commitment_duration_months_prior.d

C7_Witness ==
    /\ script = "prior_summary" /\ ~summary_df.none
    /\ prior_csv.data = ExampleRows
    /\ Len(summary_df.rows) = 2
    /\ summary_df.rows[1].total_commitments_prior = 3
    /\ summary_df.rows[2].total_commitments_prior = 2

IsPrefix(s, q) == Len(s) <= Len(q) /\ s = SubSeq(q, 1, Len(s))

Stages == <<"Load", "Join", "Join-with-prior-summary", "Normalize/Clean", "Save">>

KeyMissingAtJoin ==
    \/ /\ trace = <<"Load", "Join">>
       /\ (~HasCol(demographics_df, c_cdcno) \/ ~HasCol(commitments_df, c_cdcno))
    \/ /\ trace = <<"Load", "Join", "Join-with-prior-summary">>
       /\ ~HasCol(prior_summary_df, c_cdcno)

\* C5 as stated: main runs Load, Join, Join-with-prior-summary, Normalize/Clean,
\* Save in that order, and a run that ends without Save ended on a missing cdcno
\* at one of the two joins; every other run does each stage once and reaches Save
\* (runs ended by an exception of a file operation left aside).
C5_OnlyMissingKeyStops ==
    script = "cleaning" =>
        /\ IsPrefix(trace, Stages)
        /\ (pc = "done" /\ exc = "") => (trace = Stages \/ KeyMissingAtJoin)

\* C5 amended: the stages run in that order, each at most once; a run ends
\* without Save exactly when a stage before Save raises (Load failing to read an
\* input file), or cdcno is missing at one of the two joins, or the first join
\* returns no rows (there is no commitment row); every other run does each stage
\* once and reaches Save.
C5_StagesInOrder ==
    script = "cleaning" =>
        /\ IsPrefix(trace, Stages)
        /\ pc = "done" =>
              IF exc = "OSError" /\ ~InTrace("Join") THEN trace = <<"Load">>
              ELSE IF ~HasCol(demographics_df, c_cdcno) \/ ~HasCol(commitments_df, c_cdcno)
              THEN trace = <<"Load", "Join">>
              ELSE IF Len(commitments_df.data) = 0
              THEN trace = <<"Load", "Join">> /\ ~merged_df.none /\ exc = ""
              ELSE IF ~HasCol(prior_summary_df, c_cdcno)
              THEN trace = <<"Load", "Join", "Join-with-prior-summary">>
              ELSE trace = Stages

\* both tables have cdcno, there is no commitment row, and main stopped after Join
C5_Witness ==
    /\ script = "cleaning" /\ pc = "done" /\ exc = ""
    /\ HasCol(demographics_df, c_cdcno) /\ HasCol(commitments_df, c_cdcno)
    /\ Len(demographics_df.data) > 0
    /\ ~merged_df.none /\ Len(merged_df.data) = 0
    /\ trace = <<"Load", "Join">>

DateColumns == {c_offense_begin_date, c_offense_end_date}

NumericColumns == {c_aggregate_sentence_in_months, c_offense_time_with_enhancement}

\* the table clean_data was given: the result of the second join
InputOfClean == pd_merge_left(merged_df, prior_summary_df)

\* C6 as stated: after clean_data no cell of a general column is missing, the
\* fill coming after the conversions: a value that is missing after its
\* conversion to a date or a number is the text "Unknown".
C6_UnknownAfterConversion ==
    (script = "cleaning" /\ InTrace("Normalize/Clean")) =>
        \A r \in 1..Len(cleaned_df.data) : \A c \in 1..Len(cleaned_df.columns) :
            LET v == cleaned_df.data[r][c]
                before == InputOfClean.data[r][c]
            IN  /\ cleaned_df.columns[c] \notin DateColumns \cup NumericColumns => ~isna(v)
                /\ (cleaned_df.columns[c] \in DateColumns /\ isna(to_datetime(before)))
                      => v = Unknown
                /\ (cleaned_df.columns[c] \in NumericColumns /\ isna(to_numeric(before)))
                      => v = Unknown

\* C6 amended: after clean_data no cell of a general column is missing (a
\* missing one holds "Unknown"); the fill comes before the conversions, so in a
\* date or numeric column a value that was missing or does not convert is
\* missing (NaT, NaN) after clean_data and never the text "Unknown".
C6_FillBeforeConversion ==
    (script = "cleaning" /\ InTrace("Normalize/Clean")) =>
        /\ cleaned_df.columns = InputOfClean.columns
        /\ Len(cleaned_df.data) = Len(InputOfClean.data)
        /\ \A r \in 1..Len(cleaned_df.data) : \A c \in 1..Len(cleaned_df.columns) :
            LET v == cleaned_df.data[r][c]
                before == InputOfClean.data[r][c]
            IN  /\ cleaned_df.columns[c] \notin DateColumns \cup NumericColumns =>
                      /\ ~isna(v)
                      /\ v = IF isna(before) THEN Unknown ELSE before
                /\ cleaned_df.columns[c] \in DateColumns =>
                      /\ v.kind \in {"date", "nat"}
                      /\ isna(to_datetime(before)) => v = NaT
                /\ cleaned_df.columns[c] \in NumericColumns =>
                      /\ v.kind \in {"int", "float", "nan"}
                      /\ isna(to_numeric(before)) => v = NaN

\* a cleaned table with a missing date, a missing number and an "Unknown"
C6_Witness ==
    /\ script = "cleaning" /\ InTrace("Normalize/Clean")
    /\ HasCol(cleaned_df, c_offense_begin_date)
    /\ \E r \in 1..Len(cleaned_df.data) :
          /\ Cell(cleaned_df, cleaned_df.data[r], c_offense_begin_date) = NaT
          /\ Cell(cleaned_df, cleaned_df.data[r], c_aggregate_sentence_in_months) = NaN
          /\ \E c \in 1..Len(cleaned_df.columns) : cleaned_df.data[r][c] = Unknown

Stages4 ==
    <<"load_and_clean_data", "summarize_data", "visualize_data", "save_cleaned_data">>

StageTrace == SelectSeq(trace, LAMBDA e : \E i \in 1..4 : Stages4[i] = e)

IsError(entry) == entry[1] = "ERROR"

Completed == Info("Script completed successfully.")

\* C8: in current_clean.py main every exception of a stage is caught, logged,
\* and main returns normally; the stages run in the order load_and_clean_data,
\* summarize_data, visualize_data, save_cleaned_data, so the cleaned CSV is
\* written only when all three earlier stages completed without error, and
\* 'Script completed successfully' is logged only after the save.
C8_TopLevelCatch ==
    script = "current_clean" =>
        /\ exc = ""
        /\ IsPrefix(StageTrace, Stages4)
        /\ \A i \in 1..Len(log) : IsError(log[i]) => (i = Len(log) /\ pc = "done")
        /\ pc = "done" => (IsError(log[Len(log)]) \/ log[Len(log)] = Completed)
        /\ (pc = "done" /\ StageTrace # Stages4) => IsError(log[Len(log)])
        /\ ~out_file.none =>
              /\ StageTrace = Stages4
              /\ \A i \in 1..Len(log) : ~IsError(log[i])
              /\ out_file = cleaned_df
        /\ \A i \in 1..Len(log) :
              log[i] = Completed =>
                  /\ ~out_file.none
                  /\ i > 1 /\ log[i - 1] = Info("Cleaned data saved")

\* summarize_data raised: logged, main returned, nothing plotted or saved
C8_Witness ==
    /\ script = "current_clean" /\ pc = "done" /\ exc = ""
    /\ StageTrace = <<"load_and_clean_data", "summarize_data">>
    /\ log[Len(log)] = Error("KeyError")
    /\ out_file.none

\* the path ends in ".<word>" and its last component has a character other
\* than a dot before that final dot
HasExtension(p, word) ==
    /\ Len(p) >= 3
    /\ p[Len(p)] = word
    /\ p[Len(p) - 1] = "."
    /\ \E i \in 1..(Len(p) - 2) :
          /\ p[i] \notin {".", "/"}
          /\ \A j \in i..Len(p) : p[j] # "/"

Unsupported == Error("ValueError: Unsupported file type")

\* C9: load_and_clean_data fails with the unsupported-format error whenever the
\* extension of the path is neither '.csv' nor '.xlsx', before it reads a file or
\* cleans a column name; for '.csv' and '.xlsx' it never raises that error.
C9_UnsupportedFormat ==
    (script = "current_clean" /\ InTrace("load_and_clean_data")) =>
        IF HasExtension(input_file, "csv") \/ HasExtension(input_file, "xlsx")
        THEN /\ \A i \in 1..Len(log) : log[i] # Unsupported
             /\ trace[2] = IF HasExtension(input_file, "csv") THEN "read_csv"
                           ELSE "read_excel"
        ELSE /\ log = <<Unsupported>>
             /\ trace = <<"load_and_clean_data">>
             /\ cleaned_df.none /\ pc = "done"

C9_Witness ==
    /\ script = "current_clean" /\ pc = "done"
    /\ input_file = <<"f", ".", "CSV">>
    /\ log = <<Unsupported>>
    /\ trace = <<"load_and_clean_data">>

====
